---- MODULE Spec2Model ----
(***************************************************************************)
(* A model of cyrial: the manager's interfaces (the serial transports),    *)
(* the device classes built on them (csac, gpsdo, ubx/nmea, fpga, scpi)    *)
(* and the read/write/eat primitives of cyrial::interface.                 *)
(*                                                                         *)
(* Text.  A std::string is a sequence of tokens.  A literal of the source  *)
(* is one token ("SYNC:IMME"); text the code inspects or builds character  *)
(* by character is one token per character ("$", "\n", digits).            *)
(*                                                                         *)
(* Transport.  rx[p] is what the instrument on port p has sent and the     *)
(* program has not read yet, oldest first.  One element is one line as     *)
(* `c_dev[idx].read().rstrip()` yields it; the empty line Gap stands for   *)
(* a read that yields nothing (a blank line, or a pause longer than the    *)
(* timeout).  A read on an empty rx yields nothing as well.  Every line    *)
(* carries a ghost tag w: 0 for traffic the instrument sent on its own, 1  *)
(* for its reaction to the latest write on the port, 2 for its reaction to *)
(* an earlier write.                                                       *)
(***************************************************************************)
EXTENDS Integers, Sequences, FiniteSets, TLC

VARIABLES port, devs, messages, rx, lastCall, thr, calc

vars == <<port, devs, messages, rx, lastCall, thr, calc>>

(* ------------------------------- bounds -------------------------------- *)

NumPorts == 2
MaxDevs == 2
MaxRx == 2
MaxMsgs == 2

Ports == 0 .. (NumPorts - 1)

(* ------------------------------- text ---------------------------------- *)

NL == "\n"

RECURSIVE Flatten(_)
Flatten(ss) == IF ss = <<>> THEN <<>> ELSE Head(ss) \o Flatten(Tail(ss))

DigitChar(d) ==
  CASE d = 0 -> "0" [] d = 1 -> "1" [] d = 2 -> "2" [] d = 3 -> "3"
    [] d = 4 -> "4" [] d = 5 -> "5" [] d = 6 -> "6" [] d = 7 -> "7"
    [] d = 8 -> "8" [] d = 9 -> "9"

RECURSIVE Digits(_)
Digits(n) == IF n < 10 THEN <<DigitChar(n)>>
             ELSE Digits(n \div 10) \o <<DigitChar(n % 10)>>

\* std::to_string(int) and std::to_string(size_t): decimal, '-' for negatives
to_string(n) == IF n < 0 THEN <<"-">> \o Digits(0 - n) ELSE Digits(n)

\* A double is [nan, u]: not-a-number, or u thousandths.
Dbl(u) == [nan |-> FALSE, u |-> u]
NaN == [nan |-> TRUE, u |-> 0]

Pad3(n) == IF n < 10 THEN <<"0", "0">> \o Digits(n)
           ELSE IF n < 100 THEN <<"0">> \o Digits(n) ELSE Digits(n)

\* std::to_string(double): "%f", six decimals
to_string_double(v) ==
  IF v.nan THEN <<"n", "a", "n">>
  ELSE LET a == IF v.u < 0 THEN 0 - v.u ELSE v.u
       IN (IF v.u < 0 THEN <<"-">> ELSE <<>>) \o Digits(a \div 1000) \o <<".">>
            \o Pad3(a % 1000) \o <<"0", "0", "0">>

(* ------------------------- the instrument's lines ---------------------- *)

Line(t, w) == [t |-> t, w |-> w]

Sent1 == <<"$", "GPGGA,1">>
Sent2 == <<"$", "GPGGA,2">>
EchoLn == <<"echo">>
AnsLn == <<"OK">>
Gap == <<>>

Sentences == {Sent1, Sent2}

\* What the instrument sends after a command, in arrival order.
Reactions == { <<>>, <<EchoLn>>, <<EchoLn, AnsLn>>, <<EchoLn, Gap, AnsLn>> }

BeginsWithDollar(s) == s # <<>> /\ s[1] = "$"

Age(q) == [k \in DOMAIN q |-> IF q[k].w = 1 THEN Line(q[k].t, 2) ELSE q[k]]

\* The lines of `script` arrive behind q; those that answer a command carry
\* the tag w.
Arrive(q, script, w) ==
  q \o [k \in DOMAIN script |->
         Line(script[k],
              IF script[k] = Gap \/ BeginsWithDollar(script[k]) THEN 0 ELSE w)]

(* ------------------------ cyrial::interface ---------------------------- *)

baud_rates == { 50, 75, 110, 134, 150, 200, 300, 600, 1200, 1800, 2400, 4800,
                9600, 19200, 38400, 57600, 115200, 230400, 460800, 500000,
                576000, 921600, 1000000, 1152000, 1500000, 2000000, 2500000,
                3000000, 3500000, 4000000, 0 }

DefaultTimeout == 200

\* The fields timeout and baud_rate have no initialiser: until assigned they
\* hold Uninit, and a read of Uninit yields any value of Indeterminate.
Uninit == 0 - 1
Unapplied == 0 - 2
Indeterminate == {0, 100, 1000, 9600, 57600, 115200}

FieldRead(f) == IF f = Uninit THEN Indeterminate ELSE {f}

\* interface::interface: applies the default timeout to the resource, stores
\* neither timeout nor baud_rate.
interface(i) == [timeout |-> Uninit, baud_rate |-> Uninit,
                 py_timeout |-> DefaultTimeout, py_baud |-> Unapplied]

\* interface::set_baud, with b the value the reads of baud_rate yield
set_baud(P, proposed, b) ==
  IF proposed # b /\ proposed \in baud_rates
  THEN [P EXCEPT !.py_baud = proposed, !.baud_rate = proposed]
  ELSE P

\* interface::set_timeout, with t0 the value the read of timeout yields
set_timeout(P, t, t0) ==
  IF t # t0 THEN [P EXCEPT !.py_timeout = t] ELSE P

\* interface::write: the command goes out; the instrument's reaction follows.
write(q, script) == Arrive(Age(q), script, 1)

\* One `c_dev[idx].read()`: the next line, or nothing.
ReadLine(q) ==
  IF q = <<>> THEN [text |-> Gap, got |-> <<>>, rest |-> <<>>]
  ELSE [text |-> Head(q).t, got |-> <<Head(q)>>, rest |-> Tail(q)]

\* The do-while of interface::read: append "\n" + temp, read, until the read
\* yields nothing.
RECURSIVE ReadLoop(_, _, _, _, _)
ReadLoop(response, temp, q, lines, n) ==
  LET r == response \o <<NL>> \o temp
      nx == ReadLine(q)
  IN IF nx.text = <<>>
     THEN [resp |-> r, rest |-> nx.rest, lines |-> lines \o nx.got,
           nreads |-> n + 1]
     ELSE ReadLoop(r, nx.text, nx.rest, lines \o nx.got, n + 1)

\* interface::read
read(q) ==
  LET first == ReadLine(q)
  IN ReadLoop(first.text, <<>>, first.rest, first.got, 1)

\* interface::eat: `lines` reads, whatever they yield
RECURSIVE eat(_, _)
eat(q, lines) ==
  IF lines = 0 THEN [rest |-> q, lines |-> <<>>, nreads |-> 0]
  ELSE LET nx == ReadLine(q)
           e == eat(nx.rest, lines - 1)
       IN [rest |-> e.rest, lines |-> nx.got \o e.lines, nreads |-> e.nreads + 1]

EatDefault == 2

(* ------------------------------ state ---------------------------------- *)

Dev(kind, p) == [kind |-> kind, comm |-> p]

\* calc is the encoding function that has just been applied on its own, with
\* its input and its result.
NoCalc == [fn |-> "none", in |-> <<>>, out |-> <<>>, pos |-> 0]

NoDev == Dev("none", 0)

\* lastCall is the outcome of the device method that has just run, until its
\* caller takes it (Return): the device, the method, its numeric argument,
\* whether the argument passed the method's check, what it returned, and what
\* it did on the transport (commands written, lines read, number of reads).
\* A numeric argument is recorded as a double; a method without one records
\* NoArg.  Arguments of other types are recorded in args.
NoArg == Dbl(0)
IntArg(n) == Dbl(n)

NoCall == [dev |-> NoDev, op |-> "none", arg |-> NoArg, args |-> <<>>,
           accepted |-> TRUE, rv |-> "void", ret |-> <<>>, written |-> <<>>,
           lines |-> <<>>, nreads |-> 0, pre |-> <<>>]

Idle == lastCall.op = "none"

Call(d, op, arg, accepted, rv, ret, written, lines, nreads) ==
  [dev |-> d, op |-> op, arg |-> arg, args |-> <<>>, accepted |-> accepted,
   rv |-> rv, ret |-> ret, written |-> written, lines |-> lines,
   nreads |-> nreads, pre |-> messages[d.comm]]

Return ==
  /\ ~Idle
  /\ lastCall' = NoCall
  /\ UNCHANGED <<port, devs, messages, rx, thr, calc>>

(* --------------------------- the environment --------------------------- *)

\* The instrument sends a sentence on its own schedule.
Emit(p, s) ==
  /\ Idle
  /\ \E d \in devs : d.comm = p
  /\ Len(rx[p]) < MaxRx
  /\ rx' = [rx EXCEPT ![p] = Append(@, Line(s, 0))]
  /\ UNCHANGED <<port, devs, messages, lastCall, thr, calc>>

(* ------------------------ shapes of device methods --------------------- *)

\* interface::query: write, then read
query(q, script) == read(write(q, script))

\* `return comm->query(cmd);`
Query(d, op, arg, cmd) ==
  /\ Idle
  /\ \E script \in Reactions :
       LET r == query(rx[d.comm], script)
       IN /\ Len(r.rest) <= MaxRx
          /\ rx' = [rx EXCEPT ![d.comm] = r.rest]
          /\ lastCall' = Call(d, op, arg, TRUE, "string", r.resp, <<cmd>>, r.lines,
                              r.nreads)
  /\ UNCHANGED <<port, devs, messages, thr, calc>>

\* `comm->write(cmd); comm->eat();`
WriteEat(d, op, arg, cmd) ==
  /\ Idle
  /\ \E script \in Reactions :
       LET r == eat(write(rx[d.comm], script), EatDefault)
       IN /\ Len(r.rest) <= MaxRx
          /\ rx' = [rx EXCEPT ![d.comm] = r.rest]
          /\ lastCall' = Call(d, op, arg, TRUE, "void", <<>>, <<cmd>>, r.lines,
                              r.nreads)
  /\ UNCHANGED <<port, devs, messages, thr, calc>>

\* a method whose check of its argument fails: it returns at once
Skip(d, op, arg, rv) ==
  /\ Idle
  /\ lastCall' = Call(d, op, arg, FALSE, rv, <<>>, <<>>, <<>>, 0)
  /\ UNCHANGED <<port, devs, messages, rx, thr, calc>>

(* -------------------------------- csac --------------------------------- *)

telemetry_header(d) == Query(d, "telemetry_header", NoArg, <<"!6">>)
\* a telemetry request that sends the lock command
telemetry_data_Lock(d) == Query(d, "telemetry_data", NoArg, <<"!FL">>)

telemetry_data(d) == Query(d, "telemetry_data", NoArg, <<"!^">>)

SteerArgs == {0 - 20000001, 0 - 20000000, 0, 20000000, 20000001}

\* a check that also turns away the two bounds
SteerRejects_Open(value) == value <= 0 - 20000000 \/ value >= 20000000

SteerRejects(value) == value < 0 - 20000000 \/ value > 20000000

steer_freq_abs(d, value) ==
  IF SteerRejects(value) THEN Skip(d, "steer_freq_abs", IntArg(value), "string")
  ELSE Query(d, "steer_freq_abs", IntArg(value), <<"!FD">> \o to_string(value))

\* a relative steer that sends a keyword of its own
steer_freq_rel_OwnKeyword(d, value) ==
  IF SteerRejects(value) THEN Skip(d, "steer_freq_rel", IntArg(value), "string")
  ELSE Query(d, "steer_freq_rel", IntArg(value), <<"!FR">> \o to_string(value))

steer_freq_rel(d, value) ==
  IF SteerRejects(value) THEN Skip(d, "steer_freq_rel", IntArg(value), "string")
  ELSE Query(d, "steer_freq_rel", IntArg(value), <<"!FD">> \o to_string(value))

STEER_FREQ_LOCK(d) == WriteEat(d, "STEER_FREQ_LOCK", NoArg, <<"!FL">>)

(* -------------------------------- scpi --------------------------------- *)

idn(d) == Query(d, "idn", NoArg, <<"*IDN?">>)

(* -------------------------------- gpsdo -------------------------------- *)

gps(d) == Query(d, "gps", NoArg, <<"GPS?">>)
gps_sat_tra_coun(d) == Query(d, "gps_sat_tra_coun", NoArg, <<"GPS:SAT:TRA:COUN?">>)
gps_sat_vis_coun(d) == Query(d, "gps_sat_vis_coun", NoArg, <<"GPS:SAT:VIS:COUN?">>)
ptime(d) == Query(d, "ptime", NoArg, <<"PTIME?">>)
ptim_date(d) == Query(d, "ptim_date", NoArg, <<"PTIM:DATE?">>)
ptim_time(d) == Query(d, "ptim_time", NoArg, <<"PTIM:TIME?">>)
ptim_time_str(d) == Query(d, "ptim_time_str", NoArg, <<"PTIM:TIME:STR?">>)
ptim_tint(d) == Query(d, "ptim_tint", NoArg, <<"PTIM:TINT?">>)
sync(d) == Query(d, "sync", NoArg, <<"SYNC?">>)
sync_sour_state(d) == Query(d, "sync_sour_state", NoArg, <<"SYNC:SOUR:STATE?">>)
sync_hold_dur(d) == Query(d, "sync_hold_dur", NoArg, <<"SYNC:HOLD:DUR?">>)
sync_tint(d) == Query(d, "sync_tint", NoArg, <<"SYNC:TINT?">>)
sync_fee(d) == Query(d, "sync_fee", NoArg, <<"SYNC:FEE?">>)
sync_lock(d) == Query(d, "sync_lock", NoArg, <<"SYNC:LOCK?">>)
sync_health(d) == Query(d, "sync_health", NoArg, <<"SYNC:HEALTH?">>)
diag_rosc_efc_rel(d) == Query(d, "diag_rosc_efc_rel", NoArg, <<"DIAG:ROSC:EFC:REL?">>)
diag_rosc_efc_abs(d) == Query(d, "diag_rosc_efc_abs", NoArg, <<"DIAG:ROSC:EFC:ABS?">>)
syst_stat(d) == Query(d, "syst_stat", NoArg, <<"SYST:STAT?">>)
syst_comm_ser_echo(d) == Query(d, "syst_comm_ser_echo", NoArg, <<"SYST:COMM:SER:ECHO?">>)
syst_comm_ser_pro(d) == Query(d, "syst_comm_ser_pro", NoArg, <<"SYST:COMM:SER:PRO?">>)
syst_comm_ser_baud(d) == Query(d, "syst_comm_ser_baud", NoArg, <<"SYST:COMM:SER:BAUD?">>)
serv(d) == Query(d, "serv", NoArg, <<"SERV?">>)
serv_1pps(d) == Query(d, "serv_1pps", NoArg, <<"SERV:1PPS?">>)

FreqArgs == {0, 255, 256}

\* `if (freq <= 255)` on a size_t
FreqAccepts(freq) == freq <= 255

gps_gpgga(d, freq) ==
  IF FreqAccepts(freq)
  THEN WriteEat(d, "gps_gpgga", IntArg(freq), <<"GPS:GPGGA ">> \o to_string(freq))
  ELSE Skip(d, "gps_gpgga", IntArg(freq), "void")

gps_ggast(d, freq) ==
  IF FreqAccepts(freq)
  THEN WriteEat(d, "gps_ggast", IntArg(freq), <<"GPS:GGAST ">> \o to_string(freq))
  ELSE Skip(d, "gps_ggast", IntArg(freq), "void")

gps_gprmc(d, freq) ==
  IF FreqAccepts(freq)
  THEN WriteEat(d, "gps_gprmc", IntArg(freq), <<"GPS:GPRMC ">> \o to_string(freq))
  ELSE Skip(d, "gps_gprmc", IntArg(freq), "void")

gps_xyzsp(d, freq) ==
  IF FreqAccepts(freq)
  THEN WriteEat(d, "gps_xyzsp", IntArg(freq), <<"GPS:XYZSP ">> \o to_string(freq))
  ELSE Skip(d, "gps_xyzsp", IntArg(freq), "void")

serv_coarsd(d, val) ==
  IF FreqAccepts(val)
  THEN WriteEat(d, "serv_coarsd", IntArg(val), <<"SERV:COARSD ">> \o to_string(val))
  ELSE Skip(d, "serv_coarsd", IntArg(val), "void")

\* enum sync_source { GPS, EXT, AUTO }; any other value falls through the
\* switch
SyncSources == 0 .. 3

sync_sour_mode(d, source) ==
  CASE source = 0 -> WriteEat(d, "sync_sour_mode", IntArg(source), <<"SYNC:SOUR:MODE GPS">>)
    [] source = 1 -> WriteEat(d, "sync_sour_mode", IntArg(source), <<"SYNC:SOUR:MODE EXT">>)
    [] source = 2 -> WriteEat(d, "sync_sour_mode", IntArg(source), <<"SYNC:SOUR:MODE AUTO">>)
    [] OTHER -> Skip(d, "sync_sour_mode", IntArg(source), "void")

sync_hold_init(d) == WriteEat(d, "sync_hold_init", NoArg, <<"SYNC:HOLD:INIT">>)
sync_hold_rec_init(d) == WriteEat(d, "sync_hold_rec_init", NoArg, <<"SYNC:HOLD:REC:INIT">>)
sync_imme(d) == WriteEat(d, "sync_imme", NoArg, <<"SYNC:IMME">>)

\* `"SYST:COMM:SER:ECHO " + state ? "ON" : "OFF"` parses as
\* `("SYST:COMM:SER:ECHO " + state) ? "ON" : "OFF"`: the condition is a
\* pointer into the literal, which is never null.
LiteralPlusBoolIsNonNull(state) == TRUE

syst_comm_ser_echo_bool(d, state) ==
  WriteEat(d, "syst_comm_ser_echo(bool)", IntArg(IF state THEN 1 ELSE 0),
           IF LiteralPlusBoolIsNonNull(state) THEN <<"ON">> ELSE <<"OFF">>)

syst_comm_ser_pro_bool(d, state) ==
  WriteEat(d, "syst_comm_ser_pro(bool)", IntArg(IF state THEN 1 ELSE 0),
           IF LiteralPlusBoolIsNonNull(state) THEN <<"ON">> ELSE <<"OFF">>)

gpsdo_baud == {9600, 19200, 38400, 57600, 115200}

BaudArgs == gpsdo_baud \cup {4800}

syst_comm_ser_baud_size_t(d, proposed) ==
  IF proposed \in gpsdo_baud
  THEN WriteEat(d, "syst_comm_ser_baud(size_t)", IntArg(proposed), <<"SYST:COMM:SER:BAUD">>)
  ELSE Skip(d, "syst_comm_ser_baud(size_t)", IntArg(proposed), "void")

\* `value >= lo && value <= hi` on doubles (lo, hi in thousandths): false for
\* a NaN
DblAccepts(value, lo, hi) == ~value.nan /\ value.u >= lo /\ value.u <= hi

DblArgs(lo, hi) == {Dbl(lo - 1), Dbl(lo), Dbl(hi), Dbl(hi + 1), NaN}

serv_efcs(d, value) ==
  IF DblAccepts(value, 0, 500000)
  THEN WriteEat(d, "serv_efcs", value, <<"SERV:EFCS ">> \o to_string_double(value))
  ELSE Skip(d, "serv_efcs", value, "void")

serv_efcd(d, value) ==
  IF DblAccepts(value, 0, 4000000)
  THEN WriteEat(d, "serv_efcd", value, <<"SERV:EFCD ">> \o to_string_double(value))
  ELSE Skip(d, "serv_efcd", value, "void")

serv_tempco(d, value) ==
  IF DblAccepts(value, 0 - 4000000, 4000000)
  THEN WriteEat(d, "serv_tempco", value, <<"SERV:TEMPCO ">> \o to_string_double(value))
  ELSE Skip(d, "serv_tempco", value, "void")

serv_aging(d, value) ==
  IF DblAccepts(value, 0 - 10000, 10000)
  THEN WriteEat(d, "serv_aging", value, <<"SERV:AGING ">> \o to_string_double(value))
  ELSE Skip(d, "serv_aging", value, "void")

serv_phaseco(d, value) ==
  IF DblAccepts(value, 0 - 100000, 100000)
  THEN WriteEat(d, "serv_phaseco", value, <<"SERV:PHASECO ">> \o to_string_double(value))
  ELSE Skip(d, "serv_phaseco", value, "void")

OffsetArgs == {0 - 1, 0, 17}

serv_1pps_int(d, offset) ==
  WriteEat(d, "serv_1pps(int)", IntArg(offset), <<"SERV:1PPS ">> \o to_string(offset))

TracArgs == {0, 300}

serv_trac(d, freq) == WriteEat(d, "serv_trac", IntArg(freq), <<"SERV:TRAC ">> \o to_string(freq))

(* ------------------------------ nmea ----------------------------------- *)

\* The while loop of check_NMEA: as long as the text just read begins with
\* '$', push `input` and read again.
RECURSIVE CheckLoop(_, _, _, _, _, _)
CheckLoop(msgs, input, result, q, lines, n) ==
  IF BeginsWithDollar(result)
  THEN LET r == read(q)
       IN CheckLoop(Append(msgs, input), input, r.resp, r.rest,
                    lines \o r.lines, n + r.nreads)
  ELSE [msgs |-> msgs, result |-> result, rest |-> q, lines |-> lines,
        nreads |-> n]

\* The '$' branch of check_NMEA: push, read, loop.
CheckDollar(msgs, input, q) ==
  LET r == read(q)
  IN CheckLoop(Append(msgs, input), input, r.resp, r.rest, r.lines, r.nreads)

\* The '$' branch of check_NMEA ends without a return statement: what the
\* caller receives is not defined.  It may be the local `result`, an empty
\* string, or anything else.
NoReturnValues(result) == {result, <<>>, <<"?">>}

NmeaInputs == {Sent1, Sent2, AnsLn, <<>>}

check_NMEA(d, input) ==
  /\ Idle
  /\ IF BeginsWithDollar(input)
     THEN LET c == CheckDollar(messages[d.comm], input, rx[d.comm])
          IN /\ Len(c.msgs) <= MaxMsgs
             /\ messages' = [messages EXCEPT ![d.comm] = c.msgs]
             /\ rx' = [rx EXCEPT ![d.comm] = c.rest]
             /\ \E v \in NoReturnValues(c.result) :
                  lastCall' = Call(d, "check_NMEA", NoArg, TRUE, "string", v, <<>>,
                                   <<Line(input, 0)>> \o c.lines, c.nreads)
     ELSE /\ lastCall' = Call(d, "check_NMEA", NoArg, TRUE, "string", input, <<>>,
                              <<>>, 0)
          /\ UNCHANGED <<messages, rx>>
  /\ UNCHANGED <<port, devs, thr, calc>>

\* a drain that forgets `messages.clear()`
NmeaDrain_Keep(msgs) == [ret |-> Flatten(msgs), msgs |-> msgs]

\* get_NMEA: the buffered messages, concatenated; the buffer is cleared.
NmeaDrain(msgs) == [ret |-> Flatten(msgs), msgs |-> <<>>]

get_NMEA(d) ==
  /\ Idle
  /\ LET g == NmeaDrain(messages[d.comm])
     IN /\ messages' = [messages EXCEPT ![d.comm] = g.msgs]
        /\ lastCall' = Call(d, "get_NMEA", NoArg, TRUE, "string", g.ret, <<>>, <<>>, 0)
  /\ UNCHANGED <<port, devs, rx, thr, calc>>

(* -------------------------------- ubx ---------------------------------- *)

UpperCase == <<"A", "B", "C", "D", "E", "F", "G", "H", "I", "J", "K", "L", "M",
               "N", "O", "P", "Q", "R", "S", "T", "U", "V", "W", "X", "Y", "Z">>

DigitChars == <<"0", "1", "2", "3", "4", "5", "6", "7", "8", "9">>

\* the characters a PUBX sentence is made of
SentenceChars ==
  {"$", "*", ","} \cup {DigitChars[k] : k \in DOMAIN DigitChars}
    \cup {UpperCase[k] : k \in DOMAIN UpperCase}

\* their codes
OrdTable ==
  [c \in SentenceChars |->
     CASE c = "$" -> 36
       [] c = "*" -> 42
       [] c = "," -> 44
       [] \E k \in DOMAIN DigitChars : DigitChars[k] = c ->
            47 + (CHOOSE k \in DOMAIN DigitChars : DigitChars[k] = c)
       [] \E k \in DOMAIN UpperCase : UpperCase[k] = c ->
            64 + (CHOOSE k \in DOMAIN UpperCase : UpperCase[k] = c)]

\* (uint8_t)msg[i]
Ord(c) == OrdTable[c]

RECURSIVE Xor(_, _)
Xor(a, b) ==
  IF a = 0 THEN b
  ELSE IF b = 0 THEN a
  ELSE (IF a % 2 = b % 2 THEN 0 ELSE 1) + 2 * Xor(a \div 2, b \div 2)

HexUpper == <<"0", "1", "2", "3", "4", "5", "6", "7", "8", "9",
              "A", "B", "C", "D", "E", "F">>

HexLower == <<"0", "1", "2", "3", "4", "5", "6", "7", "8", "9",
              "a", "b", "c", "d", "e", "f">>

\* a loop that runs on over the closing '*'
RECURSIVE XorSpan_ThroughStar(_, _, _)
XorSpan_ThroughStar(msg, i, check) ==
  IF i > Len(msg) THEN check
  ELSE XorSpan_ThroughStar(msg, i + 1, Xor(check, Ord(msg[i])))

\* the loop of add_pubx_checksum: check ^= msg[i] for i in 1 .. length - 2
\* (0-based), here positions 2 .. Len - 1
RECURSIVE XorSpan(_, _, _)
XorSpan(msg, i, check) ==
  IF i > Len(msg) - 1 THEN check
  ELSE XorSpan(msg, i + 1, Xor(check, Ord(msg[i])))

\* setw(2) << setfill('0') << hex << uppercase << (int)check
Hex2Upper(b) == <<HexUpper[(b \div 16) + 1], HexUpper[(b % 16) + 1]>>

add_pubx_checksum(msg) == msg \o Hex2Upper(XorSpan(msg, 2, 0))

\* accumulators that do not wrap at 8 bits
RECURSIVE Fletcher_NoWrap(_, _, _, _)
Fletcher_NoWrap(msg, i, a, b) ==
  IF i > Len(msg) THEN <<a, b>>
  ELSE Fletcher_NoWrap(msg, i + 1, a + msg[i], b + a + msg[i])

\* the loop of add_ubx_checksum: check_b += (check_a += msg[i]) from i = 2
\* (0-based), here position 3, in uint8_t arithmetic
RECURSIVE Fletcher(_, _, _, _)
Fletcher(msg, i, a, b) ==
  IF i > Len(msg) THEN <<a, b>>
  ELSE LET a2 == (a + msg[i]) % 256
       IN Fletcher(msg, i + 1, a2, (b + a2) % 256)

\* a checksum that takes in the sync characters
add_ubx_checksum_WithSync(msg) == msg \o Fletcher(msg, 1, 0, 0)

\* a checksum that leaves out the class byte
add_ubx_checksum_SkipClass(msg) == msg \o Fletcher(msg, 4, 0, 0)

add_ubx_checksum(msg) == msg \o Fletcher(msg, 3, 0, 0)

\* an escape without setw(2) / setfill('0')
RECURSIVE escape_ubx_message_NoPad(_)
escape_ubx_message_NoPad(msg) ==
  IF msg = <<>> THEN <<>>
  ELSE (IF Head(msg) < 16
        THEN <<"\\", "x", HexLower[Head(msg) + 1]>>
        ELSE <<"\\", "x", HexLower[(Head(msg) \div 16) + 1],
               HexLower[(Head(msg) % 16) + 1]>>)
       \o escape_ubx_message_NoPad(Tail(msg))

\* "\\x" << setw(2) << setfill('0') << hex << (int)msg[i]
RECURSIVE escape_ubx_message(_)
escape_ubx_message(msg) ==
  IF msg = <<>> THEN <<>>
  ELSE <<"\\", "x", HexLower[(Head(msg) \div 16) + 1], HexLower[(Head(msg) % 16) + 1]>>
         \o escape_ubx_message(Tail(msg))

s_mu == 181
s_b == 98
c_mon == 10
id_mon_hw == 9
id_mon_ver == 4

ubx_mon_hw_packet == add_ubx_checksum(<<s_mu, s_b, c_mon, id_mon_hw, 0, 0>>)
ubx_mon_ver_packet == add_ubx_checksum(<<s_mu, s_b, c_mon, id_mon_ver, 0, 0>>)

\* nmea_type is any std::string the caller passes
NmeaTypes == {<<"R", "M", "C">>, <<"G", "G", "A">>, <<"G", ",", "A">>,
              <<"$", "R", "*">>}

RateArgs == {<<0, 0, 0, 0>>, <<0, 1, 0, 0>>, <<1, 1, 1, 1>>, <<12, 0, 5, 1>>}

pubx_command(nmea_type, i2c_rate, uart_rate, usb_rate, spi_rate) ==
  add_pubx_checksum(
    <<"$", "P", "U", "B", "X", ",", "4", "0", ",">> \o nmea_type \o <<",">>
      \o to_string(i2c_rate) \o <<",">> \o to_string(uart_rate) \o <<",">>
      \o to_string(usb_rate) \o <<",">> \o to_string(spi_rate)
      \o <<",", "0", ",", "0", "*">>)

\* pubx_rate: builds the sentence and writes it; it reads nothing.
pubx_rate(d, nmea_type, rates) ==
  /\ Idle
  /\ \E script \in Reactions :
       LET q == write(rx[d.comm], script)
       IN /\ Len(q) <= MaxRx
          /\ rx' = [rx EXCEPT ![d.comm] = q]
          /\ lastCall' = [Call(d, "pubx_rate", NoArg, TRUE, "void", <<>>,
                               <<pubx_command(nmea_type, rates[1], rates[2],
                                              rates[3], rates[4])>>,
                               <<>>, 0)
                            EXCEPT !.args = <<nmea_type, rates>>]
  /\ UNCHANGED <<port, devs, messages, thr, calc>>

\* `repr(c_dev[idx].read_raw())[1:-1]`: the line with its terminator escaped
Repr(t) == IF t = <<>> THEN <<>> ELSE t \o <<"\\", "r", "\\", "n">>

\* The do-while of interface::read_raw: append temp, read, until the read
\* yields nothing.
RECURSIVE ReadRawLoop(_, _, _, _, _)
ReadRawLoop(response, temp, q, lines, n) ==
  LET r == response \o temp
      nx == ReadLine(q)
  IN IF nx.text = <<>>
     THEN [resp |-> r, rest |-> nx.rest, lines |-> lines \o nx.got,
           nreads |-> n + 1]
     ELSE ReadRawLoop(r, Repr(nx.text), nx.rest, lines \o nx.got, n + 1)

\* interface::read_raw
read_raw(q) ==
  LET first == ReadLine(q)
  IN ReadRawLoop(Repr(first.text), <<>>, first.rest, first.got, 1)

\* interface::query_raw: write_raw, then read_raw
query_raw(q, script) == read_raw(write(q, script))

ubx_mon_ver(d) ==
  /\ Idle
  /\ \E script \in Reactions :
       LET r == query_raw(rx[d.comm], script)
       IN /\ Len(r.rest) <= MaxRx
          /\ rx' = [rx EXCEPT ![d.comm] = r.rest]
          /\ lastCall' = Call(d, "ubx_mon_ver", NoArg, TRUE, "string", r.resp,
                              <<escape_ubx_message(ubx_mon_ver_packet)>>,
                              r.lines, r.nreads)
  /\ UNCHANGED <<port, devs, messages, thr, calc>>

(* --------------------------- construction ------------------------------ *)

\* What each constructor applies to its interface; b and t0 are the values
\* its reads of the fields baud_rate and timeout yield.
Settings(kind, P, b, t0) ==
  CASE kind = "csac" -> set_timeout(set_baud(P, 57600, b), 100, t0)
    [] kind = "fpga" -> set_timeout(set_baud(P, 57600, b), 100, t0)
    [] kind = "gpsdo" -> set_baud(set_timeout(P, 100, t0), 115200, b)
    [] kind = "ubx" -> set_baud(set_timeout(P, 1000, t0), 9600, b)

Kinds == {"csac", "fpga", "gpsdo", "ubx"}

\* manager::dev(number) hands out port[number] to whoever asks; the
\* constructor stores it in comm and applies the family's settings.
NewDevice(kind, p) ==
  /\ Idle
  /\ Cardinality(devs) < MaxDevs
  /\ Dev(kind, p) \notin devs
  /\ \E b \in FieldRead(port[p].baud_rate), t0 \in FieldRead(port[p].timeout) :
       port' = [port EXCEPT ![p] = Settings(kind, port[p], b, t0)]
  /\ devs' = devs \cup {Dev(kind, p)}
  /\ lastCall' = Call(Dev(kind, p), "construct", NoArg, TRUE, "void", <<>>, <<>>, <<>>, 0)
  /\ UNCHANGED <<messages, rx, thr, calc>>

\* The rates a caller passes to interface::set_baud: supported ones and one
\* that is not in baud_rates.
SetBaudArgs == {0, 9600, 12345}

\* A caller that holds manager::dev(p) calls set_baud(proposed) on it.  The
\* call returns baud_rate as it is after the attempt; args keeps the
\* interface as it was before.
set_baud_call(p, proposed) ==
  /\ Idle
  /\ \E b \in FieldRead(port[p].baud_rate) :
       LET P == set_baud(port[p], proposed, b)
       IN /\ port' = [port EXCEPT ![p] = P]
          /\ \E r \in FieldRead(P.baud_rate) :
               lastCall' = [Call(Dev("interface", p), "set_baud",
                                 IntArg(proposed), proposed \in baud_rates,
                                 "size_t", <<r>>, <<>>, <<>>, 0)
                            EXCEPT !.args = <<port[p]>>]
  /\ UNCHANGED <<devs, messages, rx, thr, calc>>

\* The timeouts a caller passes to interface::set_timeout.
SetTimeoutArgs == {100, 500}

\* A caller that holds manager::dev(p) calls set_timeout(t) on it.
set_timeout_call(p, t) ==
  /\ Idle
  /\ \E t0 \in FieldRead(port[p].timeout) :
       port' = [port EXCEPT ![p] = set_timeout(port[p], t, t0)]
  /\ lastCall' = Call(Dev("interface", p), "set_timeout", IntArg(t), TRUE,
                      "void", <<>>, <<>>, <<>>, 0)
  /\ UNCHANGED <<devs, messages, rx, thr, calc>>

\* interface::get_timeout: returns what the read of the field timeout yields.
get_timeout_call(p) ==
  /\ Idle
  /\ \E r \in FieldRead(port[p].timeout) :
       lastCall' = Call(Dev("interface", p), "get_timeout", NoArg, TRUE,
                        "size_t", <<r>>, <<>>, <<>>, 0)
  /\ UNCHANGED <<port, devs, messages, rx, thr, calc>>

\* interface::get_baud_rate: returns what the read of baud_rate yields.
get_baud_rate_call(p) ==
  /\ Idle
  /\ \E r \in FieldRead(port[p].baud_rate) :
       lastCall' = Call(Dev("interface", p), "get_baud_rate", NoArg, TRUE,
                        "size_t", <<r>>, <<>>, <<>>, 0)
  /\ UNCHANGED <<port, devs, messages, rx, thr, calc>>

csac_device(p) == NewDevice("csac", p)
fpga_device(p) == NewDevice("fpga", p)
gpsdo_device(p) == NewDevice("gpsdo", p)
ubx_device(p) == NewDevice("ubx", p)

(* ---------------------- two callers, one interface --------------------- *)

\* Two threads hold the same device.  interface::query and interface::eat
\* take no lock: every transport operation of a method is a step of its own.
\* A line that answers a command carries the number of the thread that wrote
\* the command.
NumThreads == 2
MaxCalls == 2

Threads == 1 .. NumThreads

\* manager::dev(0), the interface the session's device is built on
ConcPort == 0

ThreadIdle(n) == [pc |-> "idle", op |-> "none", response |-> <<>>, temp |-> <<>>,
                  left |-> 0, got |-> <<>>, calls |-> n]

\* a thread calls gps() (a query) or sync_imme() (write, then eat)
conc_call(t, op) ==
  /\ thr[t].pc = "idle"
  /\ thr[t].calls < MaxCalls
  /\ thr' = [thr EXCEPT ![t].pc = "write", ![t].op = op, ![t].calls = @ + 1]
  /\ UNCHANGED <<port, devs, messages, rx, lastCall, calc>>

\* interface::write
conc_write(t) ==
  /\ thr[t].pc = "write"
  /\ \E script \in Reactions :
       /\ Len(rx[ConcPort]) + Len(script) <= MaxRx + 1
       /\ rx' = [rx EXCEPT ![ConcPort] = Arrive(@, script, t)]
  /\ thr' = [thr EXCEPT ![t].pc = IF thr[t].op = "gps" THEN "first" ELSE "eat",
                        ![t].left = EatDefault]
  /\ UNCHANGED <<port, devs, messages, lastCall, calc>>

\* interface::read, `std::string response = ...read()`
conc_read_first(t) ==
  /\ thr[t].pc = "first"
  /\ LET nx == ReadLine(rx[ConcPort])
     IN /\ rx' = [rx EXCEPT ![ConcPort] = nx.rest]
        /\ thr' = [thr EXCEPT ![t].pc = "loop", ![t].response = nx.text,
                              ![t].temp = <<>>, ![t].got = @ \o nx.got]
  /\ UNCHANGED <<port, devs, messages, lastCall, calc>>

\* interface::read, one turn of the do-while
conc_read_loop(t) ==
  /\ thr[t].pc = "loop"
  /\ LET nx == ReadLine(rx[ConcPort])
     IN /\ rx' = [rx EXCEPT ![ConcPort] = nx.rest]
        /\ thr' = [thr EXCEPT ![t].pc = IF nx.text = <<>> THEN "done" ELSE "loop",
                              ![t].response = @ \o <<NL>> \o thr[t].temp,
                              ![t].temp = nx.text, ![t].got = @ \o nx.got]
  /\ UNCHANGED <<port, devs, messages, lastCall, calc>>

\* interface::eat, one turn of the for loop
conc_eat(t) ==
  /\ thr[t].pc = "eat"
  /\ LET nx == ReadLine(rx[ConcPort])
     IN /\ rx' = [rx EXCEPT ![ConcPort] = nx.rest]
        /\ thr' = [thr EXCEPT ![t].pc = IF thr[t].left = 1 THEN "done" ELSE "eat",
                              ![t].left = @ - 1, ![t].got = @ \o nx.got]
  /\ UNCHANGED <<port, devs, messages, lastCall, calc>>

\* the method returns to its caller
conc_return(t) ==
  /\ thr[t].pc = "done"
  /\ thr' = [thr EXCEPT ![t] = ThreadIdle(thr[t].calls)]
  /\ UNCHANGED <<port, devs, messages, rx, lastCall, calc>>

(* ----------------------- the encoders on their own --------------------- *)

\* The byte vectors the encoders are applied to.
MaxBytes == 4

ByteVals == {0, 1, 181, 255}

ByteSeqs == UNION {[1 .. n -> ByteVals] : n \in 0 .. MaxBytes}

Calc(fn, in, out, pos) == [fn |-> fn, in |-> in, out |-> out, pos |-> pos]

\* add_ubx_checksum(msg) on a vector of the caller's
apply_add_ubx_checksum ==
  /\ calc.fn = "input"
  /\ calc' = Calc("add_ubx_checksum", calc.in, add_ubx_checksum(calc.in), 0)
  /\ UNCHANGED <<port, devs, messages, rx, lastCall, thr>>

\* escape_ubx_message(msg) on a vector of the caller's
apply_escape_ubx_message ==
  /\ calc.fn = "input"
  /\ calc' = Calc("escape_ubx_message", calc.in, escape_ubx_message(calc.in), 0)
  /\ UNCHANGED <<port, devs, messages, rx, lastCall, thr>>

\* the packet ubx_mon_ver builds
build_ubx_mon_ver ==
  /\ calc.fn = "input"
  /\ calc.in = <<>>
  /\ calc' = Calc("ubx_mon_ver", <<>>, ubx_mon_ver_packet, 0)
  /\ UNCHANGED <<port, devs, messages, rx, lastCall, thr>>

\* the packet ubx_mon_hw builds
build_ubx_mon_hw ==
  /\ calc.fn = "input"
  /\ calc.in = <<>>
  /\ calc' = Calc("ubx_mon_hw", <<>>, ubx_mon_hw_packet, 0)
  /\ UNCHANGED <<port, devs, messages, rx, lastCall, thr>>

\* The values one byte of a frame may be replaced by: any byte in a packet
\* the devices build, a value of ByteVals elsewhere.
CorruptVals(frame) ==
  IF frame \in {ubx_mon_ver_packet, ubx_mon_hw_packet} THEN 0 .. 255
  ELSE ByteVals

\* One byte of a frame (sync characters, body and checksum) is replaced by a
\* different value on its way.
corrupt(pos, val) ==
  /\ calc.fn \in {"add_ubx_checksum", "ubx_mon_ver", "ubx_mon_hw"}
  /\ Len(calc.out) >= 4
  /\ pos \in DOMAIN calc.out
  /\ val \in CorruptVals(calc.out)
  /\ val # calc.out[pos]
  /\ calc' = Calc("corrupt", calc.out, [calc.out EXCEPT ![pos] = val], pos)
  /\ UNCHANGED <<port, devs, messages, rx, lastCall, thr>>

(* ------------------------- the specifications -------------------------- *)

\* manager::manager: one interface per resource found; no device yet.
InitManager ==
  /\ port = [p \in Ports |-> interface(p)]
  /\ devs = {}
  /\ messages = [p \in Ports |-> <<>>]
  /\ rx = [p \in Ports |-> <<>>]
  /\ lastCall = NoCall
  /\ thr = <<>>
  /\ calc = NoCalc

\* A session: the manager, and one device constructed on manager::dev(0).
Init ==
  \E kind \in Kinds \ {"fpga"}, b \in Indeterminate, t0 \in Indeterminate :
    /\ port = [i \in Ports |-> IF i = ConcPort
                                THEN Settings(kind, interface(i), b, t0)
                                ELSE interface(i)]
    /\ devs = {Dev(kind, ConcPort)}
    /\ messages = [i \in Ports |-> <<>>]
    /\ rx = [i \in Ports |-> <<>>]
    /\ lastCall = NoCall
    /\ thr = <<>>
    /\ calc = NoCalc

Csacs == {d \in devs : d.kind = "csac"}
Gpsdos == {d \in devs : d.kind = "gpsdo"}
Ubxs == {d \in devs : d.kind = "ubx"}

Next ==
  \/ \E p \in Ports, s \in Sentences : Emit(p, s)
  \/ \E d \in Csacs : telemetry_header(d)
  \/ \E d \in Csacs : telemetry_data(d)
  \/ \E d \in Csacs, value \in SteerArgs : steer_freq_abs(d, value)
  \/ \E d \in Csacs, value \in SteerArgs : steer_freq_rel(d, value)
  \/ \E d \in Csacs : STEER_FREQ_LOCK(d)
  \/ \E d \in Gpsdos : idn(d)
  \/ \E d \in Gpsdos : gps(d)
  \/ \E d \in Gpsdos : gps_sat_tra_coun(d)
  \/ \E d \in Gpsdos : gps_sat_vis_coun(d)
  \/ \E d \in Gpsdos : ptime(d)
  \/ \E d \in Gpsdos : ptim_date(d)
  \/ \E d \in Gpsdos : ptim_time(d)
  \/ \E d \in Gpsdos : ptim_time_str(d)
  \/ \E d \in Gpsdos : ptim_tint(d)
  \/ \E d \in Gpsdos : sync(d)
  \/ \E d \in Gpsdos : sync_sour_state(d)
  \/ \E d \in Gpsdos : sync_hold_dur(d)
  \/ \E d \in Gpsdos : sync_tint(d)
  \/ \E d \in Gpsdos : sync_fee(d)
  \/ \E d \in Gpsdos : sync_lock(d)
  \/ \E d \in Gpsdos : sync_health(d)
  \/ \E d \in Gpsdos : diag_rosc_efc_rel(d)
  \/ \E d \in Gpsdos : diag_rosc_efc_abs(d)
  \/ \E d \in Gpsdos : syst_stat(d)
  \/ \E d \in Gpsdos : syst_comm_ser_echo(d)
  \/ \E d \in Gpsdos : syst_comm_ser_pro(d)
  \/ \E d \in Gpsdos : syst_comm_ser_baud(d)
  \/ \E d \in Gpsdos : serv(d)
  \/ \E d \in Gpsdos : serv_1pps(d)
  \/ \E d \in Gpsdos, freq \in FreqArgs : gps_gpgga(d, freq)
  \/ \E d \in Gpsdos, freq \in FreqArgs : gps_ggast(d, freq)
  \/ \E d \in Gpsdos, freq \in FreqArgs : gps_gprmc(d, freq)
  \/ \E d \in Gpsdos, freq \in FreqArgs : gps_xyzsp(d, freq)
  \/ \E d \in Gpsdos, val \in FreqArgs : serv_coarsd(d, val)
  \/ \E d \in Gpsdos, source \in SyncSources : sync_sour_mode(d, source)
  \/ \E d \in Gpsdos : sync_hold_init(d)
  \/ \E d \in Gpsdos : sync_hold_rec_init(d)
  \/ \E d \in Gpsdos : sync_imme(d)
  \/ \E d \in Gpsdos, state \in BOOLEAN : syst_comm_ser_echo_bool(d, state)
  \/ \E d \in Gpsdos, state \in BOOLEAN : syst_comm_ser_pro_bool(d, state)
  \/ \E d \in Gpsdos, proposed \in BaudArgs : syst_comm_ser_baud_size_t(d, proposed)
  \/ \E d \in Gpsdos, value \in DblArgs(0, 500000) : serv_efcs(d, value)
  \/ \E d \in Gpsdos, value \in DblArgs(0, 4000000) : serv_efcd(d, value)
  \/ \E d \in Gpsdos, value \in DblArgs(0 - 4000000, 4000000) : serv_tempco(d, value)
  \/ \E d \in Gpsdos, value \in DblArgs(0 - 10000, 10000) : serv_aging(d, value)
  \/ \E d \in Gpsdos, value \in DblArgs(0 - 100000, 100000) : serv_phaseco(d, value)
  \/ \E d \in Gpsdos, offset \in OffsetArgs : serv_1pps_int(d, offset)
  \/ \E d \in Gpsdos, freq \in TracArgs : serv_trac(d, freq)
  \/ \E d \in Ubxs, t \in NmeaTypes, r \in RateArgs : pubx_rate(d, t, r)
  \/ \E d \in Ubxs : ubx_mon_ver(d)
  \/ \E d \in Ubxs, input \in NmeaInputs : check_NMEA(d, input)
  \/ \E d \in Ubxs : get_NMEA(d)
  \/ Return

Spec == Init /\ [][Next]_vars

\* Construction alone: devices are built on the manager's ports.
MgrNext ==
  \/ \E p \in Ports : csac_device(p)
  \/ \E p \in Ports : fpga_device(p)
  \/ \E p \in Ports : gpsdo_device(p)
  \/ \E p \in Ports : ubx_device(p)
  \/ \E p \in Ports, proposed \in SetBaudArgs : set_baud_call(p, proposed)
  \/ \E p \in Ports, t \in SetTimeoutArgs : set_timeout_call(p, t)
  \/ \E p \in Ports : get_timeout_call(p)
  \/ \E p \in Ports : get_baud_rate_call(p)
  \/ Return

SpecMgr == InitManager /\ [][MgrNext]_vars

\* Two threads share one gpsdo device.
InitConc ==
  \E b \in Indeterminate, t0 \in Indeterminate :
    /\ port = [i \in Ports |-> IF i = ConcPort
                                THEN Settings("gpsdo", interface(i), b, t0)
                                ELSE interface(i)]
    /\ devs = {Dev("gpsdo", ConcPort)}
    /\ messages = [i \in Ports |-> <<>>]
    /\ rx = [i \in Ports |-> <<>>]
    /\ lastCall = NoCall
    /\ thr = [t \in Threads |-> ThreadIdle(0)]
    /\ calc = NoCalc

ConcNext ==
  \/ \E t \in Threads, op \in {"gps", "sync_imme"} : conc_call(t, op)
  \/ \E t \in Threads : conc_write(t)
  \/ \E t \in Threads : conc_read_first(t)
  \/ \E t \in Threads : conc_read_loop(t)
  \/ \E t \in Threads : conc_eat(t)
  \/ \E t \in Threads : conc_return(t)

SpecConc == InitConc /\ [][ConcNext]_vars

\* The encoders, each applied to a byte vector.
InitUbx ==
  /\ port = [p \in Ports |-> interface(p)]
  /\ devs = {}
  /\ messages = [p \in Ports |-> <<>>]
  /\ rx = [p \in Ports |-> <<>>]
  /\ lastCall = NoCall
  /\ thr = <<>>
  /\ \E msg \in ByteSeqs : calc = Calc("input", msg, <<>>, 0)

UbxNext ==
  \/ apply_add_ubx_checksum
  \/ apply_escape_ubx_message
  \/ build_ubx_mon_ver
  \/ build_ubx_mon_hw
  \/ \E pos \in 1 .. (MaxBytes + 4), val \in 0 .. 255 : corrupt(pos, val)

SpecUbx == InitUbx /\ [][UbxNext]_vars

(* ------------------------------ properties ----------------------------- *)

\* The documented closed range of each range-checked setter, in the unit in
\* which the argument is recorded (thousandths for the double coefficients).
RangeSetters == {"steer_freq_abs", "steer_freq_rel", "gps_gpgga", "gps_ggast",
                 "gps_gprmc", "gps_xyzsp", "serv_efcs", "serv_efcd",
                 "serv_tempco", "serv_aging", "serv_phaseco"}

DocLo(op) ==
  CASE op \in {"steer_freq_abs", "steer_freq_rel"} -> 0 - 20000000
    [] op \in {"gps_gpgga", "gps_ggast", "gps_gprmc", "gps_xyzsp"} -> 0
    [] op \in {"serv_efcs", "serv_efcd"} -> 0
    [] op = "serv_tempco" -> 0 - 4000000
    [] op = "serv_aging" -> 0 - 10000
    [] op = "serv_phaseco" -> 0 - 100000

DocHi(op) ==
  CASE op \in {"steer_freq_abs", "steer_freq_rel"} -> 20000000
    [] op \in {"gps_gpgga", "gps_ggast", "gps_gprmc", "gps_xyzsp"} -> 255
    [] op = "serv_efcs" -> 500000
    [] op = "serv_efcd" -> 4000000
    [] op = "serv_tempco" -> 4000000
    [] op = "serv_aging" -> 10000
    [] op = "serv_phaseco" -> 100000

InDocRange(c) ==
  /\ ~c.arg.nan
  /\ DocLo(c.op) <= c.arg.u
  /\ c.arg.u <= DocHi(c.op)

OutOfRangeCall == lastCall.op \in RangeSetters /\ ~InDocRange(lastCall)

\* the texts of the lines of `lines` that begin with '$', in order
SentenceTexts(lines) ==
  LET sel == SelectSeq(lines, LAMBDA l : BeginsWithDollar(l.t))
  IN [k \in DOMAIN sel |-> sel[k].t]

\* the texts of the lines of `lines` that are neither empty nor sentences
AnswerTexts(lines) ==
  LET sel == SelectSeq(lines, LAMBDA l : l.t # Gap /\ ~BeginsWithDollar(l.t))
  IN [k \in DOMAIN sel |-> sel[k].t]

\* texts joined by single newlines, built from the last text backwards
RECURSIVE JoinNL(_)
JoinNL(ts) ==
  IF ts = <<>> THEN <<>>
  ELSE IF Len(ts) = 1 THEN ts[1]
  ELSE JoinNL(SubSeq(ts, 1, Len(ts) - 1)) \o <<NL>> \o ts[Len(ts)]

\* a line of `text` begins with '$'
HasDollarLine(text) ==
  \E k \in DOMAIN text : text[k] = "$" /\ (k = 1 \/ text[k - 1] = NL)

\* the last call wrote a command and returned what it read as text
TextQueryDone ==
  /\ lastCall.rv = "string"
  /\ Len(lastCall.written) = 1
  /\ lastCall.op # "ubx_mon_ver"

\* the last call wrote a command and returned nothing
FireAndForgetDone == lastCall.rv = "void" /\ Len(lastCall.written) = 1

\* C1: a range-checked setter called with a value outside its documented
\* range writes nothing and reads nothing; called with a value inside the
\* range, bounds included, it writes exactly one command.
C1_RangeSetterTransportEffect ==
  lastCall.op \in RangeSetters =>
    IF InDocRange(lastCall)
    THEN Len(lastCall.written) = 1
    ELSE /\ lastCall.written = <<>>
         /\ lastCall.nreads = 0
         /\ lastCall.lines = <<>>

\* C1 happens: steer_freq_abs(20000000), the upper bound, has written once.
C1_Witness ==
  /\ lastCall.op = "steer_freq_abs"
  /\ lastCall.arg = Dbl(20000000)
  /\ Len(lastCall.written) = 1

\* C2: a range-checked setter called with a value outside its range reports
\* an error to its caller; the caller never sees the plain return of an
\* accepted call (a void return, or a response string).
C2_RejectionIsReported ==
  OutOfRangeCall => lastCall.rv = "error" /\ lastCall.rv \notin {"void", "string"}

\* a thread is between the write of its command and the end of its read loop
\* or of its eat
InCommand(t) == thr[t].pc \in {"first", "loop", "eat"}

\* C3: two commands on one interface never interleave: while one thread is
\* between its write and the end of its reads no other thread is, and a
\* thread reads only unsolicited lines and the lines that answer its own
\* command.
C3_CommandsDoNotInterleave ==
  /\ \A t1 \in Threads, t2 \in Threads :
       t1 # t2 => ~(InCommand(t1) /\ InCommand(t2))
  /\ \A t \in Threads : \A k \in DOMAIN thr[t].got :
       thr[t].got[k].w \in {0, t}

\* C4: when the lines read for a query contain lines beginning with '$', no
\* such line is part of the response returned to the caller.
C4_NoSentenceInResponse ==
  (TextQueryDone /\ SentenceTexts(lastCall.lines) # <<>>) =>
    ~HasDollarLine(lastCall.ret)

\* C5: after check_NMEA has read k lines beginning with '$', the sentence
\* buffer is what it was before, followed by exactly those k lines, each with
\* its own text, in arrival order.
C5_BufferGrowsByLinesRead ==
  lastCall.op = "check_NMEA" =>
    messages[lastCall.dev.comm] = lastCall.pre \o SentenceTexts(lastCall.lines)

\* C6: whatever device method has run, other than get_NMEA, every line
\* beginning with '$' that it read from the transport is in the sentence
\* buffer.
C6_NoSentenceDropped ==
  lastCall.op \notin {"none", "construct", "get_NMEA"} =>
    \A k \in DOMAIN lastCall.lines :
      BeginsWithDollar(lastCall.lines[k].t) =>
        \E j \in DOMAIN messages[lastCall.dev.comm] :
          messages[lastCall.dev.comm][j] = lastCall.lines[k].t

\* the k-th and later buffered sentences, one after the other
RECURSIVE InArrivalOrder(_, _)
InArrivalOrder(msgs, k) ==
  IF k > Len(msgs) THEN <<>> ELSE msgs[k] \o InArrivalOrder(msgs, k + 1)

\* C7: get_NMEA returns the buffered sentences in arrival order and leaves
\* the buffer empty; a get_NMEA that finds the buffer as a previous get_NMEA
\* left it returns an empty result.
C7_DrainReturnsOnceThenEmpty ==
  lastCall.op = "get_NMEA" =>
    /\ lastCall.ret = InArrivalOrder(lastCall.pre, 1)
    /\ messages[lastCall.dev.comm] = <<>>
    /\ (lastCall.pre = <<>> => lastCall.ret = <<>>)

\* C7 happens: get_NMEA has drained a buffer that held two sentences.
C7_Witness ==
  /\ lastCall.op = "get_NMEA"
  /\ Len(lastCall.pre) = 2
  /\ lastCall.ret # <<>>

\* C8: no two devices hold the same interface.
C8_OneOwnerPerInterface ==
  \A d1 \in devs, d2 \in devs : d1.comm = d2.comm => d1 = d2

\* C9: the response of a query is made of the second and later answer lines
\* read after the write; the first answer line, the echo, is not part of it.
C9_EchoIsDropped ==
  (TextQueryDone /\ AnswerTexts(lastCall.lines) # <<>>) =>
    lastCall.ret = JoinNL(Tail(AnswerTexts(lastCall.lines)))

\* C10: when a fire-and-forget method has returned, no line the instrument
\* sent in reaction to its command is still unread on the transport.
C10_NoReactionLeftUnread ==
  FireAndForgetDone =>
    \A k \in DOMAIN rx[lastCall.dev.comm] : rx[lastCall.dev.comm][k].w # 1

\* C11: a query all of whose reads yield nothing returns the empty string,
\* and the caller is not told of an error.
C11_NoDataGivesEmptyResponse ==
  (TextQueryDone /\ \A k \in DOMAIN lastCall.lines : lastCall.lines[k].t = Gap) =>
    lastCall.ret = <<>> /\ lastCall.rv # "error"

\* the 16-bit little-endian length a frame declares
DeclaredLength(frame) == frame[5] + 256 * frame[6]

\* the dual-accumulator recurrence run over msg[3 .. k], by prefixes:
\* a = (a + byte) mod 256, b = (b + a) mod 256, from a = b = 0
RECURSIVE RefA(_, _)
RefA(msg, k) == IF k < 3 THEN 0 ELSE (RefA(msg, k - 1) + msg[k]) % 256

RECURSIVE RefB(_, _)
RefB(msg, k) ==
  IF k < 3 THEN 0 ELSE (RefB(msg, k - 1) + RefA(msg, k)) % 256

\* frame is [0xB5, 0x62, 0x0A, id, 0, 0, ck_a, ck_b]: no payload, the length
\* it declares is 0, and its last two bytes are the checksum of bytes 3 .. 6
IsMonFrame(frame, id) ==
  /\ Len(frame) = 8
  /\ SubSeq(frame, 1, 6) = <<181, 98, 10, id, 0, 0>>
  /\ DeclaredLength(frame) = Len(frame) - 8
  /\ frame[7] = RefA(SubSeq(frame, 1, 6), 6)
  /\ frame[8] = RefB(SubSeq(frame, 1, 6), 6)

\* C12: the frames built for MON-VER and MON-HW are B5 62 0A id 00 00 ck_a
\* ck_b with id 04 resp. 09: the declared length is the payload's length, 0,
\* and the last two bytes are the checksum of class, id and length (B5 62 0A
\* 04 00 00 0E 34 and B5 62 0A 09 00 00 13 43).
C12_MonFrames ==
  /\ calc.fn = "ubx_mon_ver" =>
       IsMonFrame(calc.out, 4) /\ calc.out = <<181, 98, 10, 4, 0, 0, 14, 52>>
  /\ calc.fn = "ubx_mon_hw" =>
       IsMonFrame(calc.out, 9) /\ calc.out = <<181, 98, 10, 9, 0, 0, 19, 67>>

\* C12 happens: the MON-HW packet has been built.
C12_Witness == calc.fn = "ubx_mon_hw" /\ Len(calc.out) = 8

\* C13: for a vector of at least two bytes add_ubx_checksum leaves the bytes
\* it was given unchanged and appends exactly two, the accumulators a and b of
\* the recurrence a = (a + byte) mod 256, b = (b + a) mod 256 run from
\* a = b = 0 over the bytes after the first two.
C13_ChecksumIsTheRecurrence ==
  (calc.fn = "add_ubx_checksum" /\ Len(calc.in) >= 2) =>
    /\ Len(calc.out) = Len(calc.in) + 2
    /\ SubSeq(calc.out, 1, Len(calc.in)) = calc.in
    /\ calc.out[Len(calc.in) + 1] = RefA(calc.in, Len(calc.in))
    /\ calc.out[Len(calc.in) + 2] = RefB(calc.in, Len(calc.in))

\* C13 happens: a checksum whose first accumulator wrapped at 8 bits.
C13_Witness ==
  /\ calc.fn = "add_ubx_checksum"
  /\ Len(calc.in) = 4
  /\ calc.in[3] + calc.in[4] > 255

\* checksum verification of a received frame: recompute the checksum over
\* what precedes the trailing two bytes and compare
Verifies(frame) ==
  /\ Len(frame) >= 4
  /\ add_ubx_checksum(SubSeq(frame, 1, Len(frame) - 2)) = frame

\* C14, as stated: whatever byte of an encoded frame is replaced by a
\* different value, checksum verification of the result fails.
C14_AnyByteChangeIsDetected ==
  calc.fn = "corrupt" => ~Verifies(calc.out)

\* C14, amended: when a byte after the two sync characters (class, id,
\* length, payload or checksum) of an encoded frame is replaced by a
\* different value, checksum verification of the result fails.
C14_ChangeAfterSyncIsDetected ==
  (calc.fn = "corrupt" /\ calc.pos >= 3) => ~Verifies(calc.out)

\* C14 happens: the class byte of an encoded frame has been replaced, and
\* verification fails.
C14_Witness ==
  /\ calc.fn = "corrupt"
  /\ calc.pos = 3
  /\ Verifies(calc.in)
  /\ ~Verifies(calc.out)

\* the value of a lowercase hexadecimal digit, 16 for any other character
LowerHexValue(c) ==
  CASE c = "0" -> 0 [] c = "1" -> 1 [] c = "2" -> 2 [] c = "3" -> 3
    [] c = "4" -> 4 [] c = "5" -> 5 [] c = "6" -> 6 [] c = "7" -> 7
    [] c = "8" -> 8 [] c = "9" -> 9 [] c = "a" -> 10 [] c = "b" -> 11
    [] c = "c" -> 12 [] c = "d" -> 13 [] c = "e" -> 14 [] c = "f" -> 15
    [] OTHER -> 16

\* the bytes the \xNN groups of `text` stand for, group by group
ParseEscaped(text) ==
  [k \in 1 .. (Len(text) \div 4) |->
     16 * LowerHexValue(text[4 * k - 1]) + LowerHexValue(text[4 * k])]

\* C17: escape_ubx_message renders each byte, in order, as backslash, 'x' and
\* two lowercase hexadecimal digits and adds nothing else: the result is four
\* times as long as the vector, and parsing its groups gives the vector back.
C17_EscapeRoundTrip ==
  calc.fn = "escape_ubx_message" =>
    /\ Len(calc.out) = 4 * Len(calc.in)
    /\ \A k \in DOMAIN calc.in :
         /\ calc.out[4 * k - 3] = "\\"
         /\ calc.out[4 * k - 2] = "x"
         /\ LowerHexValue(calc.out[4 * k - 1]) < 16
         /\ LowerHexValue(calc.out[4 * k]) < 16
    /\ ParseEscaped(calc.out) = calc.in

\* C17 happens: a vector with a byte below 16 and a byte above has been
\* escaped.
C17_Witness ==
  /\ calc.fn = "escape_ubx_message"
  /\ \E i \in DOMAIN calc.in, j \in DOMAIN calc.in :
       calc.in[i] = 1 /\ calc.in[j] = 181
  /\ calc.out # <<>>

\* the value of an uppercase hexadecimal digit, 16 for any other character
UpperHexValue(c) ==
  CASE c = "0" -> 0 [] c = "1" -> 1 [] c = "2" -> 2 [] c = "3" -> 3
    [] c = "4" -> 4 [] c = "5" -> 5 [] c = "6" -> 6 [] c = "7" -> 7
    [] c = "8" -> 8 [] c = "9" -> 9 [] c = "A" -> 10 [] c = "B" -> 11
    [] c = "C" -> 12 [] c = "D" -> 13 [] c = "E" -> 14 [] c = "F" -> 15
    [] OTHER -> 16

\* a rate below 100 in decimal
RefDecimal(n) ==
  IF n < 10 THEN <<DigitChars[n + 1]>>
  ELSE <<DigitChars[(n \div 10) + 1], DigitChars[(n % 10) + 1]>>

\* the weights of the eight bits of a byte
BitWeights == <<1, 2, 4, 8, 16, 32, 64, 128>>

\* the XOR of the characters text[from .. to], bit by bit: a bit of the
\* result is set when an odd number of the characters have it set
RefXor8(text, from, to) ==
  LET bytes == [i \in from .. to |-> Ord(text[i])]
      Odd(w) == Cardinality({i \in from .. to : (bytes[i] \div w) % 2 = 1}) % 2
      RECURSIVE Sum(_)
      Sum(k) == IF k > 8 THEN 0
                ELSE Odd(BitWeights[k]) * BitWeights[k] + Sum(k + 1)
  IN Sum(1)

\* '$PUBX,40,<type>,<i2c>,<uart>,<usb>,<spi>,0,0*'
PubxBody(type, rates) ==
  <<"$", "P", "U", "B", "X", ",", "4", "0", ",">> \o type \o <<",">>
    \o RefDecimal(rates[1]) \o <<",">> \o RefDecimal(rates[2]) \o <<",">>
    \o RefDecimal(rates[3]) \o <<",">> \o RefDecimal(rates[4])
    \o <<",", "0", ",", "0", "*">>

\* C15: pubx_rate(type, i2c, uart, usb, spi) writes exactly one line: the
\* text '$PUBX,40,<type>,<i2c>,<uart>,<usb>,<spi>,0,0*' followed by exactly two
\* uppercase hexadecimal digits whose value is the XOR of the characters
\* strictly between the '$' and the '*' (47 for type RMC with all rates 0).
C15_PubxRateLine ==
  lastCall.op = "pubx_rate" =>
    /\ Len(lastCall.written) = 1
    /\ LET line == lastCall.written[1]
           body == PubxBody(lastCall.args[1], lastCall.args[2])
           n == Len(body)
       IN /\ Len(line) = n + 2
          /\ SubSeq(line, 1, n) = body
          /\ UpperHexValue(line[n + 1]) < 16
          /\ UpperHexValue(line[n + 2]) < 16
          /\ 16 * UpperHexValue(line[n + 1]) + UpperHexValue(line[n + 2])
               = RefXor8(body, 2, n - 1)
          /\ (lastCall.args = <<(<<"R", "M", "C">>), (<<0, 0, 0, 0>>)>> =>
                SubSeq(line, n + 1, n + 2) = <<"4", "7">>)

\* C15 happens: pubx_rate("RMC", 12, 0, 5, 1) has written its line.
C15_Witness ==
  /\ lastCall.op = "pubx_rate"
  /\ lastCall.args = <<(<<"R", "M", "C">>), (<<12, 0, 5, 1>>)>>
  /\ Len(lastCall.written) = 1

\* a field that holds a character the sentence syntax reserves
HasReservedChar(field) ==
  \E k \in DOMAIN field : field[k] \in {",", "*", "$"}

\* C16: pubx_rate called with an nmea_type that contains ',', '*' or '$'
\* fails with an encoding error and writes nothing.
C16_InvalidFieldIsRefused ==
  (lastCall.op = "pubx_rate" /\ HasReservedChar(lastCall.args[1])) =>
    lastCall.written = <<>> /\ lastCall.rv = "error"

\* the settings of each device family
FamilyBaud(kind) ==
  CASE kind = "csac" -> 57600 [] kind = "gpsdo" -> 115200 [] kind = "ubx" -> 9600

FamilyTimeout(kind) ==
  CASE kind = "csac" -> 100 [] kind = "gpsdo" -> 100 [] kind = "ubx" -> 1000

\* C18: when a csac, gpsdo or ubx device has been constructed, the baud rate
\* and the timeout applied to its transport are those of its family, whatever
\* the interface's state was before.
C18_ConstructionAppliesSettings ==
  (lastCall.op = "construct" /\ lastCall.dev.kind \in {"csac", "gpsdo", "ubx"}) =>
    /\ port[lastCall.dev.comm].py_baud = FamilyBaud(lastCall.dev.kind)
    /\ port[lastCall.dev.comm].py_timeout = FamilyTimeout(lastCall.dev.kind)

\* C19: set_baud called with a rate that is not in baud_rates reports a
\* validation error, and leaves the rate applied to the transport and the
\* stored baud rate as they were.
C19_UnsupportedBaudIsRejected ==
  (lastCall.op = "set_baud" /\ lastCall.arg.u \notin baud_rates) =>
    /\ lastCall.rv = "error"
    /\ port[lastCall.dev.comm] = lastCall.args[1]

\* C20: each call of STEER_FREQ_LOCK writes the lock command '!FL' exactly
\* once, and no other device method writes '!FL'.
C20_LockWrittenOnceByLockOnly ==
  /\ lastCall.op = "STEER_FREQ_LOCK" => lastCall.written = << <<"!FL">> >>
  /\ lastCall.op # "STEER_FREQ_LOCK" =>
       \A k \in DOMAIN lastCall.written : lastCall.written[k] # <<"!FL">>

\* C20 happens: STEER_FREQ_LOCK has run, written once and eaten two lines.
C20_Witness ==
  /\ lastCall.op = "STEER_FREQ_LOCK"
  /\ Len(lastCall.written) = 1
  /\ lastCall.nreads = 2

\* the last call wrote a command and returned what its read loop collected
\* (interface::read or interface::read_raw)
QueryDone == lastCall.rv = "string" /\ Len(lastCall.written) = 1

\* C21: the drain of a query stops at exactly the first read that yields
\* nothing: every read before its last yields a line, its last read yields
\* nothing, and no read follows it (so a first read that yields nothing is the
\* only read).
C21_DrainStopsAtFirstEmptyRead ==
  QueryDone =>
    LET got == lastCall.lines
        n == Len(got)
    IN /\ \A k \in 1 .. (n - 1) : got[k].t # Gap
       /\ lastCall.nreads = IF n > 0 /\ got[n].t = Gap THEN n ELSE n + 1

\* the texts of the lines of `lines` that are not empty
NonEmptyTexts(lines) ==
  LET sel == SelectSeq(lines, LAMBDA l : l.t # Gap)
  IN [k \in DOMAIN sel |-> sel[k].t]

\* C22: the response of a text read is the lines it collected, in arrival
\* order, with exactly one newline between consecutive lines: no newline at
\* its beginning or end, no two newlines in a row.
C22_ResponseIsNewlineJoined ==
  TextQueryDone =>
    /\ lastCall.ret = JoinNL(NonEmptyTexts(lastCall.lines))
    /\ \A k \in DOMAIN lastCall.ret :
         lastCall.ret[k] = NL =>
           /\ k # 1
           /\ k # Len(lastCall.ret)
           /\ lastCall.ret[k - 1] # NL

\* C23: the interface holds the last applied settings: set_timeout(t) leaves
\* t applied to the transport, get_timeout() returns the timeout applied to
\* the transport (hence the argument of the most recent set_timeout), and
\* get_baud_rate() returns the rate applied to the transport once one has
\* been applied.
C23_GettersReturnAppliedSettings ==
  LET P == port[lastCall.dev.comm]
  IN /\ lastCall.op = "set_timeout" => P.py_timeout = lastCall.arg.u
     /\ lastCall.op = "get_timeout" => lastCall.ret = <<P.py_timeout>>
     /\ (lastCall.op = "get_baud_rate" /\ P.py_baud # Unapplied) =>
          lastCall.ret = <<P.py_baud>>

\* the number of decimal digits of n >= 0 (at most nine)
DecimalWidth(n) == CHOOSE w \in 1 .. 9 : n < 10 ^ w /\ (w = 1 \/ n >= 10 ^ (w - 1))

\* the decimal numeral of an integer, digit by position, '-' first if negative
RefSigned(v) ==
  LET n == IF v < 0 THEN 0 - v ELSE v
      w == DecimalWidth(n)
      body == [k \in 1 .. w |-> DigitChars[((n \div 10 ^ (w - k)) % 10) + 1]]
  IN IF v < 0 THEN <<"-">> \o body ELSE body

ContainsNumeral(cmd, num) ==
  \E i \in 1 .. (Len(cmd) - Len(num) + 1) : SubSeq(cmd, i, i + Len(num) - 1) = num

\* ON for true, OFF for false
OnOff(arg) == IF arg.u = 1 THEN <<"ON">> ELSE <<"OFF">>

\* C25: a GPSDO setter writes its keyword followed by its argument:
\* syst_comm_ser_echo(bool) and syst_comm_ser_pro(bool) write
\* '<keyword> ON' for true and '<keyword> OFF' for false, and
\* syst_comm_ser_baud(p) writes one command that begins with its keyword and
\* contains p when p is one of the five rates, and nothing for any other p.
C25_SetterWritesItsArgument ==
  /\ lastCall.op = "syst_comm_ser_echo(bool)" =>
       lastCall.written = << <<"SYST:COMM:SER:ECHO ">> \o OnOff(lastCall.arg) >>
  /\ lastCall.op = "syst_comm_ser_pro(bool)" =>
       lastCall.written = << <<"SYST:COMM:SER:PRO ">> \o OnOff(lastCall.arg) >>
  /\ lastCall.op = "syst_comm_ser_baud(size_t)" =>
       IF lastCall.arg.u \in {9600, 19200, 38400, 57600, 115200}
       THEN /\ Len(lastCall.written) = 1
            /\ Len(lastCall.written[1]) > 0
            /\ lastCall.written[1][1] \in {"SYST:COMM:SER:BAUD", "SYST:COMM:SER:BAUD "}
            /\ ContainsNumeral(lastCall.written[1], RefSigned(lastCall.arg.u))
       ELSE lastCall.written = <<>>

====
